---- MODULE Spec2Model ----
(***************************************************************************)
(* Contact form of django-celery-example: the ContactForm model, the       *)
(* ModelForm built from it, the contact_form route and the Celery task     *)
(* send_email_task.  Strings are sequences of one-character strings.       *)
(***************************************************************************)
EXTENDS Integers, Sequences, FiniteSets, TLC

VARIABLES req, store, clock, queue, task

vars == <<req, store, clock, queue, task>>

(* Number of HTTP requests the route receives in one behaviour. *)
MaxSubmissions == 2

Max(S) == CHOOSE x \in S : \A y \in S : x >= y
Rep(c, n) == [i \in 1..n |-> c]

(***************************************************************************)
(* models.py: field declarations of ContactForm                            *)
(***************************************************************************)
NameMaxLengthOff == 64 + 1
NameMaxLength == 64
SubjectMaxLength == 64
(* models.EmailField() declares max_length 254 by default. *)
EmailMaxLength == 254

(* Characters of the model's alphabet that an address atom or a domain     *)
(* label may contain.                                                      *)
Letters == {"a", "c", "h", "i", "l", "m", "o", "s", "t", "x"}
Localhost == <<"l", "o", "c", "a", "l", "h", "o", "s", "t">>
MaxLabelLength == 63
MinTldLength == 2

(* str.strip(), applied by the form's CharField.to_python (strip=True). *)
RECURSIVE LStrip(_)
LStrip(s) == IF s # <<>> /\ Head(s) = " " THEN LStrip(Tail(s)) ELSE s
RECURSIVE RStrip(_)
RStrip(s) ==
  IF s # <<>> /\ s[Len(s)] = " " THEN RStrip(SubSeq(s, 1, Len(s) - 1)) ELSE s
Strip(s) == RStrip(LStrip(s))

(* EmailValidator.user_regex, dot-atom form: atoms separated by single dots. *)
UserPartOk(u) ==
  /\ Len(u) > 0
  /\ \A i \in 1..Len(u) : u[i] \in Letters \cup {"."}
  /\ u[1] # "." /\ u[Len(u)] # "."
  /\ \A i \in 1..(Len(u) - 1) : ~(u[i] = "." /\ u[i + 1] = ".")

(* EmailValidator.domain_regex: one or more labels, each followed by a     *)
(* dot, then a top-level label of at least two characters; or a domain of  *)
(* the allowlist (localhost).                                              *)
DomainPartOk(d) ==
  \/ d = Localhost
  \/ /\ Len(d) > 0
     /\ \A i \in 1..Len(d) : d[i] \in Letters \cup {"."}
     /\ d[1] # "." /\ d[Len(d)] # "."
     /\ \A i \in 1..(Len(d) - 1) : ~(d[i] = "." /\ d[i + 1] = ".")
     /\ \E i \in 1..Len(d) : d[i] = "."
     /\ Len(d) - Max({i \in 1..Len(d) : d[i] = "."}) >= MinTldLength
     /\ \A i \in 1..Len(d) : \A j \in i..Len(d) :
          (\A k \in i..j : d[k] # ".") => j - i + 1 <= MaxLabelLength

(* EmailValidator.__call__: the value is split at its last "@". *)
EmailValidator(v) ==
  /\ \E i \in 1..Len(v) : v[i] = "@"
  /\ LET k == Max({i \in 1..Len(v) : v[i] = "@"})
     IN  /\ UserPartOk(SubSeq(v, 1, k - 1))
         /\ DomainPartOk(SubSeq(v, k + 1, Len(v)))

(* Cleaning of a CharField of the form: strip, required, max_length.       *)
(* max_length = 0 stands for a field without one (TextField).              *)
(* Variant: a field declared blank=True. *)
CharFieldNoRequired(value, max_length) ==
  IF max_length > 0 /\ Len(Strip(value)) > max_length THEN {"max_length"} ELSE {}
CharFieldErrors(value, max_length) ==
  LET v == Strip(value)
  IN  IF v = <<>> THEN {"required"}
      ELSE IF max_length > 0 /\ Len(v) > max_length THEN {"max_length"}
      ELSE {}

(* Cleaning of the EmailField of the form. *)
(* Variant: the address declared as a plain CharField. *)
EmailFieldNoValidator(value) ==
  CharFieldErrors(value, EmailMaxLength)
EmailFieldErrors(value) ==
  LET v == Strip(value)
  IN  IF v = <<>> THEN {"required"}
      ELSE (IF EmailValidator(v) THEN {} ELSE {"invalid"})
           \cup (IF Len(v) > EmailMaxLength THEN {"max_length"} ELSE {})

(***************************************************************************)
(* forms.py: ContactFormModelForm, fields name, email, subject, message    *)
(***************************************************************************)
FormErrors(data) ==
  [name    |-> CharFieldErrors(data.name, NameMaxLength),
   email   |-> EmailFieldErrors(data.email),
   subject |-> CharFieldErrors(data.subject, SubjectMaxLength),
   message |-> CharFieldErrors(data.message, 0)]

IsValid(data) ==
  LET e == FormErrors(data)
  IN  e.name = {} /\ e.email = {} /\ e.subject = {} /\ e.message = {}

CleanedData(data) ==
  [name    |-> Strip(data.name),
   email   |-> Strip(data.email),
   subject |-> Strip(data.subject),
   message |-> Strip(data.message)]

(* ModelForm.save(): one row of table contactform; created_on is auto_now. *)
Save(cleaned, now) ==
  [email      |-> cleaned.email,
   name       |-> cleaned.name,
   subject    |-> cleaned.subject,
   message    |-> cleaned.message,
   created_on |-> now]

(***************************************************************************)
(* tasks.py: send_email_task                                               *)
(***************************************************************************)
DEFAULT_FROM_EMAIL == "webmaster@localhost"
max_retries == 3

(* Outcomes of django.core.mail.send_mail. *)
Outcomes == {"ok", "BadHeaderError", "OtherError"}

Log(level, msg) == [ev |-> "log", level |-> level, msg |-> msg]

(* Line 14: the f-string logged before the try block. *)
AttemptEntry(to, subject, message) ==
  Log("info", <<"from", DEFAULT_FROM_EMAIL, "to", to, "subject", subject,
                "message", message>>)

(* Line 16. *)
AboutEntry == Log("info", <<"About to send_mail">>)

(* Line 17: send_mail(subject, message, DEFAULT_FROM_EMAIL, [to]). *)
(* Variant: sender and recipient exchanged. *)
SendMailCallSenderTo(to, subject, message) ==
  [ev |-> "send_mail", level |-> "call",
   msg |-> <<subject, message, to, <<DEFAULT_FROM_EMAIL>>>>]
SendMailCall(to, subject, message) ==
  [ev |-> "send_mail", level |-> "call",
   msg |-> <<subject, message, DEFAULT_FROM_EMAIL, <<to>>>>]

(* Lines 15-21: what the try statement does with the outcome of send_mail: *)
(* the entries it logs, whether an exception leaves the task body, and the *)
(* state the execution ends in.  "Retry" is the state of a task whose body *)
(* asked the runner for another run; no branch of the code asks for one.   *)
(* Variant: the generic branch hands the failure to the retry mechanism. *)
ExceptHandlerRetry(outcome, retries) ==
  IF outcome = "ok" THEN
    [logs |-> <<>>, raised |-> FALSE, state |-> "Sent"]
  ELSE IF outcome = "BadHeaderError" THEN
    [logs |-> <<Log("info", <<"BadHeaderError">>)>>, raised |-> FALSE,
     state |-> "DroppedMalformedHeader"]
  ELSE IF retries < max_retries THEN
    [logs |-> <<Log("error", <<outcome>>)>>, raised |-> TRUE, state |-> "Retry"]
  ELSE
    [logs |-> <<Log("error", <<outcome>>)>>, raised |-> TRUE,
     state |-> "LoggedFailure"]
(* Variant: "except Exception" placed before "except BadHeaderError". *)
ExceptHandlerSwapped(outcome, retries) ==
  IF outcome = "ok" THEN
    [logs |-> <<>>, raised |-> FALSE, state |-> "Sent"]
  ELSE
    [logs |-> <<Log("error", <<outcome>>)>>, raised |-> FALSE,
     state |-> "LoggedFailure"]
(* Variant: the error entry is logged on the success path too. *)
ExceptHandlerFinally(outcome, retries) ==
  IF outcome = "ok" THEN
    [logs |-> <<Log("error", <<outcome>>)>>, raised |-> FALSE, state |-> "Sent"]
  ELSE IF outcome = "BadHeaderError" THEN
    [logs |-> <<Log("info", <<"BadHeaderError">>)>>, raised |-> FALSE,
     state |-> "DroppedMalformedHeader"]
  ELSE
    [logs |-> <<Log("error", <<outcome>>)>>, raised |-> FALSE,
     state |-> "LoggedFailure"]
(* Variant: a failure recorded by one execution fails the later ones. *)
ExceptHandlerShared(outcome, retries) ==
  IF outcome = "ok" /\ \A u \in 1..Len(task) : task[u].state # "LoggedFailure" THEN
    [logs |-> <<>>, raised |-> FALSE, state |-> "Sent"]
  ELSE IF outcome = "BadHeaderError" THEN
    [logs |-> <<Log("info", <<"BadHeaderError">>)>>, raised |-> FALSE,
     state |-> "DroppedMalformedHeader"]
  ELSE
    [logs |-> <<Log("error", <<outcome>>)>>, raised |-> FALSE,
     state |-> "LoggedFailure"]
ExceptHandler(outcome, retries) ==
  IF outcome = "ok" THEN
    [logs |-> <<>>, raised |-> FALSE, state |-> "Sent"]
  ELSE IF outcome = "BadHeaderError" THEN
    [logs |-> <<Log("info", <<"BadHeaderError">>)>>, raised |-> FALSE,
     state |-> "DroppedMalformedHeader"]
  ELSE
    [logs |-> <<Log("error", <<outcome>>)>>, raised |-> FALSE,
     state |-> "LoggedFailure"]

(* The execution record the worker keeps for a task message it received. *)
NewTask ==
  [state |-> "Pending", retries |-> 0, outcome |-> "none", raised |-> FALSE,
   trace |-> <<>>]

(* send_email_task, lines 12-14: the runner starts the body for a message  *)
(* it received, or again for a task that asked for a retry, and the body   *)
(* logs the attempt.                                                       *)
TaskBegin(t) ==
  /\ t \in 1..Len(task)
  /\ task[t].state \in {"Pending", "Retry"}
  /\ task' = [task EXCEPT
       ![t].state = "Logged",
       ![t].retries = IF task[t].state = "Retry" THEN @ + 1 ELSE @,
       ![t].trace = Append(@, AttemptEntry(queue[t].to, queue[t].subject,
                                           queue[t].message))]
  /\ UNCHANGED <<req, store, clock, queue>>

(* send_email_task, line 16. *)
TaskAboutToSend(t) ==
  /\ t \in 1..Len(task)
  /\ task[t].state = "Logged"
  /\ task' = [task EXCEPT
       ![t].state = "Attempting",
       ![t].trace = Append(@, AboutEntry)]
  /\ UNCHANGED <<req, store, clock, queue>>

(* send_email_task, line 17 and the except clauses that follow it. *)
TaskSendMail(t, outcome) ==
  /\ t \in 1..Len(task)
  /\ task[t].state = "Attempting"
  /\ LET h == ExceptHandler(outcome, task[t].retries)
     IN  task' = [task EXCEPT
           ![t].state = h.state,
           ![t].outcome = outcome,
           ![t].raised = h.raised,
           ![t].trace = (Append(@, SendMailCall(queue[t].to, queue[t].subject,
                                                queue[t].message))) \o h.logs]
  /\ UNCHANGED <<req, store, clock, queue>>

(***************************************************************************)
(* urls.py: the route "" of app contact_form, served by ContactFormView    *)
(***************************************************************************)
(* The address the view sends the notification to. *)
Recipient == "operator@localhost"

Alice ==
  [name    |-> <<"a">>,
   email   |-> <<"a", "@", "a", ".", "c", "o", "m">>,
   subject |-> <<"h", "i">>,
   message |-> <<"h", "i", "a", "l", "l">>]

(* A submission with every field at the edge of what the form accepts:    *)
(* padded with blanks, name and subject of exactly max_length characters,  *)
(* an address at the allowlisted domain, a message longer than a name may  *)
(* be.                                                                     *)
Edge ==
  [name    |-> <<" ">> \o Rep("a", 64) \o <<" ">>,
   email   |-> <<" ", "a", "@">> \o Localhost \o <<" ">>,
   subject |-> Rep("x", 64),
   message |-> Rep("m", 64 + 1)]

NameInputs == {<<>>, <<" ">>, Rep("a", 64 + 1)}
SubjectInputs == {Rep("x", 64 + 1)}
EmailInputs ==
  {<<>>,
   <<"a", "a", "a">>,
   <<"a", "@", "a", ".", "a">>,
   <<"a", ".", "@", "a", ".", "c", "o", "m">>,
   Rep("a", 254 - 5) \o Alice.email}
MessageInputs == {<<" ">>}

(* The POST bodies the model submits: Alice's submission, its variations   *)
(* in one field, the submission at the edge and one with every field bad.  *)
Submissions ==
  {Alice, Edge}
  \cup {[Alice EXCEPT !.name = n] : n \in NameInputs}
  \cup {[Alice EXCEPT !.subject = s] : s \in SubjectInputs}
  \cup {[Alice EXCEPT !.email = e] : e \in EmailInputs}
  \cup {[Alice EXCEPT !.message = m] : m \in MessageInputs}
  \cup {[name |-> Rep("a", 64 + 1), email |-> <<"a", "a", "a">>,
         subject |-> <<>>, message |-> <<>>]}

NoData == [name |-> <<>>, email |-> <<>>, subject |-> <<>>, message |-> <<>>]

NextRequest(r) ==
  /\ r \in 1..MaxSubmissions
  /\ req[r].pc = "new"
  /\ \A q \in 1..(r - 1) : req[q].pc # "new"

(* GET: the empty form is rendered. *)
Get(r) ==
  /\ NextRequest(r)
  /\ req' = [req EXCEPT ![r] = [pc |-> "done", method |-> "GET", data |-> NoData,
                                response |-> "form"]]
  /\ UNCHANGED <<store, clock, queue, task>>

(* POST: the form is validated; a valid one is saved and the notification  *)
(* enqueued, an invalid one is rendered again with its errors.             *)
Post(r, data) ==
  /\ NextRequest(r)
  /\ IF IsValid(data)
     THEN LET cleaned == CleanedData(data)
          IN  /\ store' = Append(store, Save(cleaned, clock))
              /\ clock' = clock + 1
              /\ queue' = Append(queue, [to |-> Recipient,
                                         subject |-> cleaned.subject,
                                         message |-> cleaned.message])
              /\ task' = Append(task, NewTask)
              /\ req' = [req EXCEPT ![r] = [pc |-> "enqueued", method |-> "POST",
                                            data |-> data, response |-> "none"]]
     ELSE /\ req' = [req EXCEPT ![r] = [pc |-> "done", method |-> "POST",
                                        data |-> data, response |-> "form_errors"]]
          /\ UNCHANGED <<store, clock, queue, task>>

(* The response to a valid POST: the redirect to the success URL. *)
Respond(r) ==
  /\ r \in 1..MaxSubmissions
  /\ req[r].pc = "enqueued"
  /\ req' = [req EXCEPT ![r].pc = "done", ![r].response = "success"]
  /\ UNCHANGED <<store, clock, queue, task>>

Init ==
  /\ req = [r \in 1..MaxSubmissions |->
              [pc |-> "new", method |-> "none", data |-> NoData,
               response |-> "none"]]
  /\ store = <<>>
  /\ clock = 1
  /\ queue = <<>>
  /\ task = <<>>

Next ==
  \/ \E r \in 1..MaxSubmissions : Get(r)
  \/ \E r \in 1..MaxSubmissions : \E data \in Submissions : Post(r, data)
  \/ \E r \in 1..MaxSubmissions : Respond(r)
  \/ \E t \in 1..MaxSubmissions : TaskBegin(t)
  \/ \E t \in 1..MaxSubmissions : TaskAboutToSend(t)
  \/ \E t \in 1..MaxSubmissions : \E outcome \in Outcomes : TaskSendMail(t, outcome)

Spec == Init /\ [][Next]_vars

(***************************************************************************)
(* Properties                                                              *)
(***************************************************************************)
Terminal == {"Sent", "DroppedMalformedHeader", "LoggedFailure"}

InfoEntries(tr) == {i \in 1..Len(tr) : tr[i].ev = "log" /\ tr[i].level = "info"}
ErrorEntries(tr) == {i \in 1..Len(tr) : tr[i].ev = "log" /\ tr[i].level = "error"}
Attempts(tr) == {i \in 1..Len(tr) : tr[i].ev = "send_mail"}

Posted == {r \in 1..MaxSubmissions : req[r].method = "POST"}

(* The field constraints of a submission, on the values as the form fields *)
(* take them (surrounding whitespace is not part of a value).              *)
NameWithinBounds(d) == Len(Strip(d.name)) >= 1 /\ Len(Strip(d.name)) <= 64
SubjectWithinBounds(d) == Len(Strip(d.subject)) >= 1 /\ Len(Strip(d.subject)) <= 64
EmailIsValid(d) == EmailValidator(Strip(d.email)) /\ Len(Strip(d.email)) <= 254
MessageNonEmpty(d) == Len(Strip(d.message)) >= 1

FieldsAllValid(d) ==
  NameWithinBounds(d) /\ SubjectWithinBounds(d) /\ EmailIsValid(d) /\ MessageNonEmpty(d)

ViolatesFieldConstraint(d) ==
  \/ Strip(d.name) = <<>> \/ Strip(d.subject) = <<>>
  \/ Strip(d.email) = <<>> \/ Strip(d.message) = <<>>
  \/ Len(Strip(d.name)) > 64
  \/ Len(Strip(d.subject)) > 64
  \/ ~EmailValidator(Strip(d.email))

ValidPosts == {r \in Posted : FieldsAllValid(req[r].data)}

(* The position, among the valid submissions, of valid submission r. *)
Rank(r) == Cardinality({q \in ValidPosts : q <= r})

(* C1: every submission whose fields are all valid persists exactly one    *)
(* ContactMessage and enqueues exactly one dispatch request: after N valid *)
(* submissions the store holds N records and N requests were enqueued, the *)
(* k-th of each carrying the k-th valid submission's fields.               *)
C1_ValidSubmissionPersistsAndEnqueuesOnce ==
  /\ Len(store) = Cardinality(ValidPosts)
  /\ Len(queue) = Cardinality(ValidPosts)
  /\ \A r \in ValidPosts :
       /\ store[Rank(r)].name = Strip(req[r].data.name)
       /\ store[Rank(r)].email = Strip(req[r].data.email)
       /\ store[Rank(r)].subject = Strip(req[r].data.subject)
       /\ store[Rank(r)].message = Strip(req[r].data.message)
       /\ queue[Rank(r)] = [to |-> Recipient,
                            subject |-> Strip(req[r].data.subject),
                            message |-> Strip(req[r].data.message)]

C1_Witness ==
  /\ Cardinality(ValidPosts) = 2
  /\ Len(store) = 2
  /\ \E r \in ValidPosts : req[r].data = Alice
  /\ \E r \in ValidPosts : req[r].data = Edge

(* C2: a submission that violates a field constraint (an empty field, a    *)
(* name or subject longer than 64 characters, an invalid email address)    *)
(* leaves the Message Store and the enqueued dispatch requests unchanged.  *)
C2_InvalidSubmissionChangesNothing ==
  [][\A r \in 1..MaxSubmissions :
       (req[r].pc = "new" /\ req'[r].method = "POST"
        /\ ViolatesFieldConstraint(req'[r].data))
       => (store' = store /\ queue' = queue /\ task' = task)]_vars

C2_Witness ==
  /\ Len(store) = 1
  /\ Len(queue) = 1
  /\ \E r \in Posted :
       /\ r > 1
       /\ ViolatesFieldConstraint(req[r].data)
       /\ req[r].response = "form_errors"

(* C3: a dispatch whose transport raised a generic failure has logged      *)
(* exactly one error entry, is in the terminal state LoggedFailure, has    *)
(* made one delivery attempt, and never makes another.                     *)
C3_GenericFailureLoggedOnceNoRetry ==
  /\ [](\A t \in 1..Len(task) :
          task[t].outcome = "OtherError" =>
            /\ task[t].state = "LoggedFailure"
            /\ Cardinality(ErrorEntries(task[t].trace)) = 1
            /\ Cardinality(Attempts(task[t].trace)) = 1)
  /\ [][\A t \in 1..Len(task) :
          task[t].state = "LoggedFailure" => task'[t] = task[t]]_vars

C3_Witness ==
  \E t \in 1..Len(task) :
    task[t].outcome = "OtherError" /\ task[t].state = "LoggedFailure"

(* C4 as stated: a dispatch whose transport reported an invalid header     *)
(* ends in DroppedMalformedHeader having logged exactly one informational  *)
(* entry and made a single delivery attempt.                               *)
C4_Original ==
  \A t \in 1..Len(task) :
    task[t].outcome = "BadHeaderError" =>
      /\ task[t].state = "DroppedMalformedHeader"
      /\ Cardinality(InfoEntries(task[t].trace)) = 1
      /\ Cardinality(Attempts(task[t].trace)) = 1

(* C4: a dispatch whose transport reported an invalid header ends in the   *)
(* terminal state DroppedMalformedHeader; it logs exactly one              *)
(* informational entry for the invalid header, after the two informational *)
(* entries logged before the transport call, no error entry, and makes no  *)
(* further delivery attempt.                                               *)
C4_BadHeaderDroppedOneEntryAfterCall ==
  /\ [](\A t \in 1..Len(task) :
          task[t].outcome = "BadHeaderError" =>
            /\ task[t].state = "DroppedMalformedHeader"
            /\ Cardinality(Attempts(task[t].trace)) = 1
            /\ ErrorEntries(task[t].trace) = {}
            /\ Cardinality(InfoEntries(task[t].trace)) = 3
            /\ Cardinality({i \in InfoEntries(task[t].trace) :
                 \E j \in Attempts(task[t].trace) : j < i}) = 1
            /\ task[t].trace[Len(task[t].trace)].msg = <<"BadHeaderError">>)
  /\ [][\A t \in 1..Len(task) :
          task[t].state = "DroppedMalformedHeader" => task'[t] = task[t]]_vars

C4_Witness ==
  \E t \in 1..Len(task) :
    task[t].outcome = "BadHeaderError" /\ task[t].state = "DroppedMalformedHeader"

(* C5: a dispatch whose transport reported success has produced no error   *)
(* log entry and is in the terminal state Sent.                            *)
C5_SuccessEndsSentWithoutError ==
  \A t \in 1..Len(task) :
    task[t].outcome = "ok" =>
      /\ task[t].state = "Sent"
      /\ ErrorEntries(task[t].trace) = {}

C5_Witness ==
  \E t \in 1..Len(task) : task[t].outcome = "ok" /\ task[t].state = "Sent"

(* C6: no send-request ever has more than 3 delivery attempts (calls of    *)
(* the mail transport) made on its behalf.                                 *)
C6_AtMostThreeAttempts ==
  \A t \in 1..Len(task) : Cardinality(Attempts(task[t].trace)) <= 3

C6_Witness ==
  \E t \in 1..Len(task) :
    /\ task[t].outcome = "OtherError"
    /\ task[t].state \in Terminal
    /\ Cardinality(Attempts(task[t].trace)) = 1

(* C7: no execution of send_email_task raises to the task runner, whatever *)
(* the transport outcome; a valid submission can be answered in any state  *)
(* of its dispatch, and its answer is always the success response.         *)
C7_DispatchFailureNeverReachesRequest ==
  /\ \A t \in 1..Len(task) : ~task[t].raised
  /\ \A r \in 1..MaxSubmissions : req[r].pc = "enqueued" => ENABLED Respond(r)
  /\ \A r \in ValidPosts : req[r].pc = "done" => req[r].response = "success"

C7_Witness ==
  /\ \E r \in ValidPosts :
       /\ req[r].response = "success"
       /\ task[Rank(r)].state = "LoggedFailure"
  /\ \E r \in ValidPosts :
       /\ req[r].response = "success"
       /\ task[Rank(r)].state = "Pending"

(* C8: every persisted ContactMessage has a non-empty email, name and      *)
(* subject, with name and subject at most 64 characters long; a submission *)
(* outside these bounds was answered with the form's errors.               *)
C8_StoredFieldsWithinBounds ==
  /\ \A i \in 1..Len(store) :
       /\ Len(store[i].email) >= 1
       /\ Len(store[i].name) >= 1 /\ Len(store[i].name) <= 64
       /\ Len(store[i].subject) >= 1 /\ Len(store[i].subject) <= 64
  /\ \A r \in Posted :
       ~(NameWithinBounds(req[r].data) /\ SubjectWithinBounds(req[r].data)
         /\ Len(Strip(req[r].data.email)) >= 1)
       => req[r].response = "form_errors"

C8_Witness ==
  /\ \E i \in 1..Len(store) : Len(store[i].name) = 64
  /\ \E r \in Posted :
       Len(req[r].data.name) = 65 /\ req[r].response = "form_errors"

(* C9: in every execution of send_email_task the entry recording the       *)
(* attempt (sender, recipient, subject, body) is logged before the mail    *)
(* transport is invoked, and the transport is invoked exactly once, with   *)
(* the default sender and a recipient list holding the one recipient.      *)
C9_AttemptLoggedBeforeSingleTransportCall ==
  \A t \in 1..Len(task) :
    LET tr == task[t].trace
    IN  /\ Cardinality(Attempts(tr)) <= 1
        /\ task[t].state \in Terminal => Cardinality(Attempts(tr)) = 1
        /\ \A i \in Attempts(tr) :
             /\ tr[i].msg = <<queue[t].subject, queue[t].message,
                              DEFAULT_FROM_EMAIL, <<queue[t].to>>>>
             /\ \E j \in 1..(i - 1) :
                  /\ tr[j].ev = "log"
                  /\ tr[j].msg = <<"from", DEFAULT_FROM_EMAIL, "to", queue[t].to,
                                   "subject", queue[t].subject,
                                   "message", queue[t].message>>

C9_Witness ==
  \E t \in 1..Len(task) :
    task[t].state \in Terminal /\ Cardinality(Attempts(task[t].trace)) = 1

(* The terminal state and the entries of a dispatch as functions of its    *)
(* own arguments and its own transport outcome.                            *)
OwnState(outcome) ==
  CASE outcome = "ok" -> "Sent"
    [] outcome = "BadHeaderError" -> "DroppedMalformedHeader"
    [] outcome = "OtherError" -> "LoggedFailure"

OwnTrace(args, outcome) ==
  <<[ev |-> "log", level |-> "info",
     msg |-> <<"from", DEFAULT_FROM_EMAIL, "to", args.to, "subject", args.subject,
               "message", args.message>>],
    [ev |-> "log", level |-> "info", msg |-> <<"About to send_mail">>],
    [ev |-> "send_mail", level |-> "call",
     msg |-> <<args.subject, args.message, DEFAULT_FROM_EMAIL, <<args.to>>>>]>>
  \o (CASE outcome = "ok" -> <<>>
        [] outcome = "BadHeaderError" ->
             <<[ev |-> "log", level |-> "info", msg |-> <<"BadHeaderError">>]>>
        [] outcome = "OtherError" ->
             <<[ev |-> "log", level |-> "error", msg |-> <<"OtherError">>]>>)

(* C10: in every interleaving of the executions of send_email_task, the    *)
(* terminal state and the log entries of each dispatch are determined by   *)
(* its own arguments and its own transport outcome alone, whatever the     *)
(* other dispatches have done.                                             *)
C10_DispatchDependsOnOwnArgumentsOnly ==
  \A t \in 1..Len(task) :
    task[t].state \in Terminal =>
      /\ task[t].state = OwnState(task[t].outcome)
      /\ task[t].trace = OwnTrace(queue[t], task[t].outcome)

C10_Witness ==
  \E t, u \in 1..Len(task) :
    /\ t # u
    /\ task[t].state = "LoggedFailure"
    /\ task[u].state = "Sent"
    /\ task[u].trace = task[t].trace \/ Len(task[u].trace) < Len(task[t].trace)

====
